---- MODULE Spec2Model ----
(***************************************************************************)
(* A model of hug/api.py: the per-module API object (API), its HTTP        *)
(* registry (HTTPInterfaceAPI) and its CLI registry (CLIInterfaceAPI).     *)
(*                                                                         *)
(* Python values are encoded as follows.                                   *)
(*   - a dict / OrderedDict is a sequence of records [k |-> key, v |-> val]*)
(*     in insertion order (Python dicts keep insertion order);             *)
(*   - a version is an integer: a concrete version n >= 0 is n, None is    *)
(*     NoneV and False is FalseV; Python compares False == 0 and hashes    *)
(*     them alike, which PyEq keeps;                                       *)
(*   - the method -> version -> handler mapping stored under a path is a   *)
(*     heap object (extend stores it by reference): `buckets` is the heap, *)
(*     a route table holds indices into it;                                *)
(*   - an attribute that is created on first use (_exception_handlers,     *)
(*     _not_found_handlers, _input_format, _directives, _startup_handlers) *)
(*     is its empty value while absent: the code reads it with             *)
(*     getattr(..., default-empty) everywhere.                             *)
(***************************************************************************)
EXTENDS Integers, Sequences, FiniteSets, TLC

\* ------------------------------------------------------------------ bounds
MaxVersion == 2
MaxHandlers == 2
MaxExtends == 1
MaxRegisters == 3

\* -------------------------------------------------------------- value sets
NoneV == -1
FalseV == -2

Apis == {"A", "B"}
Handlers == 1..MaxHandlers
ConcreteVersions == 0..MaxVersion
AllVersions == ConcreteVersions \cup {NoneV, FalseV}

\* The base_url an HTTPInterfaceAPI is constructed with by API.http.
DefaultBaseUrl == ""

\* Python equality of two versions: False == 0.
PyEq(a, b) == a = b \/ ({a, b} \subseteq {FalseV, 0})

\* Python truthiness of a version: None, False and 0 are falsy.
Truthy(v) == v \notin {NoneV, FalseV, 0}

\* set.add / set.update on a set of versions (an equal member is kept);
\* SetUpdateKeepingOwn is the mutant of SetUpdate that adds nothing.
SetAdd(S, v) == IF \E w \in S : PyEq(w, v) THEN S ELSE S \cup {v}
SetUpdateKeepingOwn(S, T) == S
SetUpdate(S, T) == S \cup {t \in T : ~ \E w \in S : PyEq(w, t)}

\* ------------------------------------------------- insertion-ordered dicts
OdKeys(d) == {d[i].k : i \in DOMAIN d}
OdHas(d, key) == \E i \in DOMAIN d : d[i].k = key
OdIdx(d, key) == CHOOSE i \in DOMAIN d : d[i].k = key
OdGet(d, key) == d[OdIdx(d, key)].v
OdGetOr(d, key, default) == IF OdHas(d, key) THEN OdGet(d, key) ELSE default
OdPut(d, key, val) ==
    IF OdHas(d, key) THEN [d EXCEPT ![OdIdx(d, key)].v = val]
    ELSE Append(d, [k |-> key, v |-> val])
OdSetDefault(d, key, val) == IF OdHas(d, key) THEN d ELSE Append(d, [k |-> key, v |-> val])

\* The same for dicts keyed by a version (key comparison is Python's ==).
VKeys(d) == {d[i].k : i \in DOMAIN d}
VHas(d, ver) == \E i \in DOMAIN d : PyEq(d[i].k, ver)
VIdx(d, ver) == CHOOSE i \in DOMAIN d : PyEq(d[i].k, ver)
VGet(d, ver) == d[VIdx(d, ver)].v
VGetOr(d, ver, default) == IF VHas(d, ver) THEN VGet(d, ver) ELSE default
VPut(d, ver, val) ==
    IF VHas(d, ver) THEN [d EXCEPT ![VIdx(d, ver)].v = val]
    ELSE Append(d, [k |-> ver, v |-> val])

\* ------------------------------------------------------------------- state
VARIABLES
    versions,           \* [Apis -> set of versions]: HTTPInterfaceAPI.versions
    routes,             \* [Apis -> dict base_url -> dict path -> bucket index]
    buckets,            \* heap of dicts method -> dict version -> handler
    handlerApi,         \* [Handlers -> Apis \cup {"none"}]: handler.interface.api
    sinks,              \* [Apis -> dict base_url -> dict url -> sink]
    middleware,         \* [Apis -> set of middleware]
    startupHandlers,    \* [Apis -> sequence]: _startup_handlers
    exceptionHandlers,  \* [Apis -> dict version -> dict kind -> handler]
    inputFormat,        \* [Apis -> dict content type -> decoder]
    notFoundHandlers,   \* [Apis -> dict version -> handler]
    directives,         \* [Apis -> dict name -> directive]: API._directives
    hasHttp,            \* [Apis -> BOOLEAN]: hasattr(api, '_http')
    commands,           \* dict name -> handler: CLIInterfaceAPI.commands
    argv,               \* sys.argv
    exitStatus,         \* <<>> while running, <<n>> after sys.exit(n)
    invoked,            \* the handler calls made by CLIInterfaceAPI.__call__
    objects,            \* the modules, sys.modules, API objects and their registries
    result,             \* what the last operation returned
    last,               \* the last operation and its arguments
    pre,                \* the registries as they were before the last operation
    done                \* how many operations of each kind have run

vars == <<versions, routes, buckets, handlerApi, sinks, middleware, startupHandlers,
          exceptionHandlers, inputFormat, notFoundHandlers, directives, hasHttp,
          commands, argv, exitStatus, invoked, objects, result, last, pre, done>>

httpVars == <<versions, routes, buckets, handlerApi, sinks, middleware, startupHandlers,
              exceptionHandlers, inputFormat, notFoundHandlers>>
cliVars == <<commands, argv, exitStatus, invoked>>

\* The registries' fields, as a record (the value `pre` keeps).
Snapshot ==
    [versions |-> versions, routes |-> routes, buckets |-> buckets,
     handlerApi |-> handlerApi, sinks |-> sinks, middleware |-> middleware,
     startupHandlers |-> startupHandlers, exceptionHandlers |-> exceptionHandlers,
     inputFormat |-> inputFormat, notFoundHandlers |-> notFoundHandlers,
     directives |-> directives, hasHttp |-> hasHttp,
     commands |-> commands, argv |-> argv, exitStatus |-> exitStatus,
     invoked |-> invoked]

\* HTTPInterfaceAPI.__init__, CLIInterfaceAPI.__init__ and API.__init__.
NewRegistries ==
    [versions |-> [a \in Apis |-> {}], routes |-> [a \in Apis |-> <<>>],
     buckets |-> <<>>, handlerApi |-> [h \in Handlers |-> "none"],
     sinks |-> [a \in Apis |-> <<>>],
     middleware |-> [a \in Apis |-> {"not_found_middleware"}],
     startupHandlers |-> [a \in Apis |-> <<>>],
     exceptionHandlers |-> [a \in Apis |-> <<>>],
     inputFormat |-> [a \in Apis |-> <<>>],
     notFoundHandlers |-> [a \in Apis |-> <<>>],
     directives |-> [a \in Apis |-> <<>>], hasHttp |-> [a \in Apis |-> FALSE],
     commands |-> <<>>, argv |-> <<"prog">>, exitStatus |-> <<>>,
     invoked |-> <<>>]

\* The objects of a fresh process: one imported module, no API object yet.
\*   modules[m]    the name of module object m
\*   sysModules[n] the module object sys.modules holds for name n (0: none)
\*   hug[m]        module m's __hug__, an API object (0: not set)
\*   module[a]     API object a's module
\*   http[a]       API object a's _http, a registry object (0: not set)
\*   cli[a]        API object a's _cli, a registry object (0: not set)
\*   registries    the number of registry objects created
\*   calls         the calls made, each with what it returned
ModuleNames == {"m1", "m2"}
NewObjects ==
    [modules |-> <<"m1">>, sysModules |-> [n \in ModuleNames |-> IF n = "m1" THEN 1 ELSE 0],
     hug |-> <<0>>, module |-> <<>>, http |-> <<>>, cli |-> <<>>, registries |-> 0,
     calls |-> <<>>]

NoOp == [op |-> "init"]
NoCount == [insert |-> 0, extend |-> 0, register |-> 0]

InitRegistries ==
    /\ versions = NewRegistries.versions
    /\ routes = NewRegistries.routes
    /\ buckets = NewRegistries.buckets
    /\ handlerApi = NewRegistries.handlerApi
    /\ sinks = NewRegistries.sinks
    /\ middleware = NewRegistries.middleware
    /\ startupHandlers = NewRegistries.startupHandlers
    /\ exceptionHandlers = NewRegistries.exceptionHandlers
    /\ inputFormat = NewRegistries.inputFormat
    /\ notFoundHandlers = NewRegistries.notFoundHandlers
    /\ directives = NewRegistries.directives
    /\ hasHttp = NewRegistries.hasHttp
    /\ commands = NewRegistries.commands
    /\ exitStatus = NewRegistries.exitStatus
    /\ invoked = NewRegistries.invoked
    /\ objects = NewObjects
    /\ result = "none"
    /\ last = NoOp
    /\ pre = NewRegistries
    /\ done = NoCount

Init == InitRegistries /\ argv = NewRegistries.argv

\* --------------------------------------------------------- route insertion
\* RouteTable.insert with the version bookkeeping of the HTTP registry:
\* routes.setdefault(base_url, OrderedDict()).setdefault(path, {})
\*       .setdefault(method, {})[version] = handler, and a version other than
\* None joins the VersionSet.
InsertRoute(api, base_url, path, method, version, handler) ==
    LET table == routes[api]
        paths == OdGetOr(table, base_url, <<>>)
        known == OdHas(paths, path)
        index == IF known THEN OdGet(paths, path) ELSE Len(buckets) + 1
        bucket == IF known THEN buckets[index] ELSE <<>>
        byVersion == VPut(OdGetOr(bucket, method, <<>>), version, handler)
        bucket2 == OdPut(bucket, method, byVersion)
    IN  /\ handler \in Handlers
        /\ exitStatus = <<>>
        /\ buckets' = IF known THEN [buckets EXCEPT ![index] = bucket2]
                      ELSE Append(buckets, bucket2)
        /\ routes' = [routes EXCEPT ![api] = OdPut(table, base_url, OdPut(paths, path, index))]
        /\ versions' = [versions EXCEPT ![api] =
                           IF version # NoneV THEN SetAdd(@, version) ELSE @]
        /\ handlerApi' = [handlerApi EXCEPT ![handler] = api]
        /\ hasHttp' = [hasHttp EXCEPT ![api] = TRUE]
        /\ last' = [op |-> "insert", api |-> api, base_url |-> base_url, path |-> path,
                    method |-> method, version |-> version, handler |-> handler]
        /\ pre' = NewRegistries
        /\ result' = "none"
        /\ done' = [done EXCEPT !.insert = @ + 1]
        /\ UNCHANGED <<sinks, middleware, startupHandlers, exceptionHandlers, inputFormat,
                       notFoundHandlers, directives, cliVars, objects>>

\* ------------------------------------------- HTTPInterfaceAPI registration
Kinds == {"KeyError", "ValueError"}
ExcHandlerOf == [A |-> "e1", B |-> "e2"]
NotFoundFns == {"nf1", "nf2"}
ContentTypes == {"json", "text"}
Decoders == {"d1", "d2"}

\* add_sink on the dict of sinks of a registry.
add_sink(table, sink, url, base_url) ==
    LET base == IF base_url # "" THEN base_url ELSE DefaultBaseUrl
    IN  OdPut(table, base, OdPut(OdGetOr(table, base, <<>>), url, sink))

\* The mutant of exception_handlers that does not fall back to the None table.
exception_handlers_exact(table, version) == VGetOr(table, version, <<>>)

\* exception_handlers(version): the dict kind -> handler of that version, else
\* that of None; <<>> stands for the None it returns when there is neither
\* (a stored dict is never empty).
exception_handlers(table, version) ==
    VGetOr(table, version, VGetOr(table, NoneV, <<>>))

\* add_exception_handler on the table of a registry, for a tuple of versions.
RECURSIVE add_exception_handler(_, _, _, _)
add_exception_handler(table, exception_type, error_handler, vers) ==
    IF vers = <<>> THEN table
    ELSE add_exception_handler(
             VPut(table, Head(vers),
                  OdPut(VGetOr(table, Head(vers), <<>>), exception_type, error_handler)),
             exception_type, error_handler, Tail(vers))

\* set_not_found_handler on the table of a registry.
set_not_found_handler(table, handler, version) == VPut(table, version, handler)

\* set_input_format on the table of a registry.
set_input_format(table, content_type, handler) == OdPut(table, content_type, handler)

Registered(op, api) ==
    /\ done.register < MaxRegisters
    /\ exitStatus = <<>>
    /\ hasHttp' = [hasHttp EXCEPT ![api] = TRUE]
    /\ pre' = NewRegistries
    /\ result' = "none"
    /\ done' = [done EXCEPT !.register = @ + 1]
    /\ last' = [op |-> op, api |-> api]

AddExceptionHandler(api, exception_type, error_handler, vers) ==
    /\ Registered("add_exception_handler", api)
    /\ exceptionHandlers' = [exceptionHandlers EXCEPT ![api] =
           add_exception_handler(@, exception_type, error_handler, vers)]
    /\ UNCHANGED <<versions, routes, buckets, handlerApi, sinks, middleware,
                   startupHandlers, inputFormat, notFoundHandlers, directives, cliVars, objects>>

SetNotFoundHandler(api, handler, version) ==
    /\ Registered("set_not_found_handler", api)
    /\ notFoundHandlers' = [notFoundHandlers EXCEPT ![api] =
           set_not_found_handler(@, handler, version)]
    /\ UNCHANGED <<versions, routes, buckets, handlerApi, sinks, middleware,
                   startupHandlers, exceptionHandlers, inputFormat, directives, cliVars, objects>>

SetInputFormat(api, content_type, handler) ==
    /\ Registered("set_input_format", api)
    /\ inputFormat' = [inputFormat EXCEPT ![api] = set_input_format(@, content_type, handler)]
    /\ UNCHANGED <<versions, routes, buckets, handlerApi, sinks, middleware,
                   startupHandlers, exceptionHandlers, notFoundHandlers, directives, cliVars, objects>>

\* add_middleware on the middleware set of a registry.
add_middleware(set, mw) == set \cup {mw}

\* add_startup_handler on the startup handlers of a registry.
add_startup_handler(handlers, handler) == Append(handlers, handler)

AddMiddleware(api, mw) ==
    /\ Registered("add_middleware", api)
    /\ middleware' = [middleware EXCEPT ![api] = add_middleware(@, mw)]
    /\ UNCHANGED <<versions, routes, buckets, handlerApi, sinks, startupHandlers,
                   exceptionHandlers, inputFormat, notFoundHandlers, directives, cliVars, objects>>

AddStartupHandler(api, handler) ==
    /\ Registered("add_startup_handler", api)
    /\ startupHandlers' = [startupHandlers EXCEPT ![api] = add_startup_handler(@, handler)]
    /\ UNCHANGED <<versions, routes, buckets, handlerApi, sinks, middleware,
                   exceptionHandlers, inputFormat, notFoundHandlers, directives, cliVars, objects>>

AddSink(api, sink, url, base_url) ==
    /\ Registered("add_sink", api)
    /\ sinks' = [sinks EXCEPT ![api] = add_sink(@, sink, url, base_url)]
    /\ UNCHANGED <<versions, routes, buckets, handlerApi, middleware, startupHandlers,
                   exceptionHandlers, inputFormat, notFoundHandlers, directives, cliVars, objects>>

\* A caller's update of the public `versions` set (the VersionSet may hold the
\* sentinels None and False beside concrete versions).
DeclareVersion(api, version) ==
    /\ Registered("declare_version", api)
    /\ versions' = [versions EXCEPT ![api] = SetAdd(@, version)]
    /\ UNCHANGED <<routes, buckets, handlerApi, sinks, middleware, startupHandlers,
                   exceptionHandlers, inputFormat, notFoundHandlers, directives, cliVars, objects>>

\* ------------------------------------------------- HTTPInterfaceAPI.extend
\* The (method, version, handler) triples of one bucket.
BucketEntries(bucket) ==
    UNION {{<<bucket[m].k, bucket[m].v[v].k, bucket[m].v[v].v>> : v \in DOMAIN bucket[m].v} :
               m \in DOMAIN bucket}

\* The (base_url, path, method, version, handler) entries of a route table.
TableEntries(table, heap) ==
    UNION {UNION {{<<table[b].k, table[b].v[p].k>> \o e :
                       e \in BucketEntries(heap[table[b].v[p].v])} :
                      p \in DOMAIN table[b].v} :
               b \in DOMAIN table}

\* The mutant of HandlersOf that looks at the first base_url of the table only.
HandlersOfFirstBase(table, heap) ==
    {e[5] : e \in TableEntries(SubSeq(table, 1, IF table = <<>> THEN 0 ELSE 1), heap)}

\* The handlers stored in the buckets a route table points to.
HandlersOf(table, heap) == {e[5] : e \in TableEntries(table, heap)}

\* The inner loop of the route merge: self.routes[base_url][route + item_route] = handler.
RECURSIVE PutRoutes(_, _, _)
PutRoutes(paths, items, route) ==
    IF items = <<>> THEN paths
    ELSE PutRoutes(OdPut(paths, route \o Head(items).k, Head(items).v), Tail(items), route)

\* The mutant of ExtendRoutes that keys each bucket by the base_url it had in
\* the extended registry.
RECURSIVE ExtendRoutesKeepingBase(_, _, _, _)
ExtendRoutesKeepingBase(own, others, route, base_url) ==
    IF others = <<>> THEN own
    ELSE LET key == Head(others).k
             withBase == OdSetDefault(own, key, <<>>)
         IN  ExtendRoutesKeepingBase(
                 OdPut(withBase, key, PutRoutes(OdGet(withBase, key), Head(others).v, route)),
                 Tail(others), route, base_url)

\* The route merge of extend, one base_url of the extended registry at a time.
RECURSIVE ExtendRoutes(_, _, _, _)
ExtendRoutes(own, others, route, base_url) ==
    IF others = <<>> THEN own
    ELSE LET withBase == OdSetDefault(own, base_url, <<>>)
         IN  ExtendRoutes(
                 OdPut(withBase, base_url,
                       PutRoutes(OdGet(withBase, base_url), Head(others).v, route)),
                 Tail(others), route, base_url)

RECURSIVE ExtendSinkUrls(_, _, _, _)
ExtendSinkUrls(own, items, route, base_url) ==
    IF items = <<>> THEN own
    ELSE ExtendSinkUrls(add_sink(own, Head(items).v, route \o Head(items).k, base_url),
                        Tail(items), route, base_url)

RECURSIVE ExtendSinks(_, _, _, _)
ExtendSinks(own, others, route, base_url) ==
    IF others = <<>> THEN own
    ELSE ExtendSinks(ExtendSinkUrls(own, Head(others).v, route, base_url),
                     Tail(others), route, base_url)

\* The mutant of BackfillKinds that copies every handler of self, also over an
\* entry the extended registry has.
RECURSIVE BackfillKindsOverwriting(_, _, _)
BackfillKindsOverwriting(target, version, kinds) ==
    IF kinds = <<>> THEN target
    ELSE BackfillKindsOverwriting(
             add_exception_handler(target, Head(kinds).k, Head(kinds).v, <<version>>),
             version, Tail(kinds))

\* The backfill of the extended registry's exception handlers: the inner loop
\* over the kinds of one version of self's table ...
RECURSIVE BackfillKinds(_, _, _)
BackfillKinds(target, version, kinds) ==
    IF kinds = <<>> THEN target
    ELSE LET target_exception_handlers == exception_handlers(target, version)
             exception_type == Head(kinds).k
         IN  BackfillKinds(
                 IF ~ OdHas(target_exception_handlers, exception_type)
                 THEN add_exception_handler(target, exception_type, Head(kinds).v, <<version>>)
                 ELSE target,
                 version, Tail(kinds))

\* ... and the outer loop over its versions.
RECURSIVE Backfill(_, _)
Backfill(target, own) ==
    IF own = <<>> THEN target
    ELSE Backfill(BackfillKinds(target, Head(own).k, Head(own).v), Tail(own))

RECURSIVE ExtendInputFormat(_, _)
ExtendInputFormat(own, others) ==
    IF others = <<>> THEN own
    ELSE ExtendInputFormat(
             IF ~ OdHas(own, Head(others).k)
             THEN set_input_format(own, Head(others).k, Head(others).v) ELSE own,
             Tail(others))

\* The mutant of ExtendNotFound that copies every handler of the extended
\* registry, also over a version self has.
RECURSIVE ExtendNotFoundOverwriting(_, _)
ExtendNotFoundOverwriting(own, others) ==
    IF others = <<>> THEN own
    ELSE ExtendNotFoundOverwriting(
             set_not_found_handler(own, Head(others).v, Head(others).k), Tail(others))

RECURSIVE ExtendNotFound(_, _)
ExtendNotFound(own, others) ==
    IF others = <<>> THEN own
    ELSE ExtendNotFound(
             IF ~ VHas(own, Head(others).k)
             THEN set_not_found_handler(own, Head(others).v, Head(others).k) ELSE own,
             Tail(others))

\* self.extend(http_api, route, base_url) for two distinct registries: what it
\* does to the fields of both.
ExtendEffect(self, http_api, route, base_url) ==
    LET base == IF base_url # "" THEN base_url ELSE DefaultBaseUrl
    IN  /\ versions' = [versions EXCEPT ![self] = SetUpdate(@, versions[http_api])]
        /\ routes' = [routes EXCEPT ![self] = ExtendRoutes(@, routes[http_api], route, base)]
        /\ handlerApi' = [h \in Handlers |->
               IF h \in HandlersOf(routes[http_api], buckets) THEN self ELSE handlerApi[h]]
        /\ sinks' = [sinks EXCEPT ![self] = ExtendSinks(@, sinks[http_api], route, base)]
        /\ middleware' = [middleware EXCEPT ![self] = @ \cup middleware[http_api]]
        /\ startupHandlers' = [startupHandlers EXCEPT ![self] = @ \o startupHandlers[http_api]]
        /\ exceptionHandlers' = [exceptionHandlers EXCEPT ![http_api] =
               Backfill(@, exceptionHandlers[self])]
        /\ inputFormat' = [inputFormat EXCEPT ![self] =
               ExtendInputFormat(@, inputFormat[http_api])]
        /\ notFoundHandlers' = [notFoundHandlers EXCEPT ![self] =
               ExtendNotFound(@, notFoundHandlers[http_api])]
        /\ UNCHANGED buckets

HttpExtend(self, http_api, route, base_url) ==
    /\ self # http_api
    /\ done.extend < MaxExtends
    /\ exitStatus = <<>>
    /\ ExtendEffect(self, http_api, route, base_url)
    /\ hasHttp' = [a \in Apis |-> hasHttp[a] \/ a \in {self, http_api}]
    /\ last' = [op |-> "extend", api |-> self, other |-> http_api, route |-> route,
                base_url |-> base_url]
    /\ pre' = Snapshot
    /\ result' = "none"
    /\ done' = [done EXCEPT !.extend = @ + 1]
    /\ UNCHANGED <<directives, cliVars, objects>>

\* ----------------------------------------------------- routes and extend
RouteBases == {"", "/api"}
RoutePaths == {"/x", "/y"}
RouteSlots == {<<"GET", NoneV>>, <<"POST", 1>>}
RoutePrefixes == {"", "/r"}
BaseOverrides == {"", "/o"}

NextRoutes ==
    \/ \E api \in Apis, b \in RouteBases, p \in RoutePaths, s \in RouteSlots :
           InsertRoute(api, b, p, s[1], s[2], done.insert + 1)
    \/ \E self \in Apis, other \in Apis, r \in RoutePrefixes, b \in BaseOverrides :
           HttpExtend(self, other, r, b)

SpecRoutes == Init /\ [][NextRoutes]_vars

\* C1: after A.extend(B, route) every (path, method, version) -> handler entry
\* A held before the call is still in A with the same handler, and every entry
\* of B is in A at route + path.
C1_ExtendPreservesBothSides ==
    last.op = "extend" =>
        /\ \A e \in TableEntries(pre.routes[last.api], pre.buckets) :
               e \in TableEntries(routes[last.api], buckets)
        /\ \A e \in TableEntries(pre.routes[last.other], pre.buckets) :
               \E b \in OdKeys(routes[last.api]) :
                   <<b, last.route \o e[2], e[3], e[4], e[5]>>
                       \in TableEntries(routes[last.api], buckets)

\* The base_url of the last bucket of a route table that holds a path.
LastBaseWith(table, path) ==
    CHOOSE b \in DOMAIN table :
        /\ OdHas(table[b].v, path)
        /\ \A c \in DOMAIN table : OdHas(table[c].v, path) => c <= b

\* C6 as stated: extend puts each bucket of the extended registry under the
\* base_url override when one is given, and otherwise under the base_url the
\* bucket had in the extended registry, at route + path.
C6_ExtendKeepsOtherBaseUrl ==
    last.op = "extend" =>
        \A b \in DOMAIN pre.routes[last.other] :
            \A p \in DOMAIN pre.routes[last.other][b].v :
                LET item == pre.routes[last.other][b].v[p]
                    dest == IF last.base_url # "" THEN last.base_url
                            ELSE pre.routes[last.other][b].k
                IN  /\ OdHas(routes[last.api], dest)
                    /\ OdHas(OdGet(routes[last.api], dest), last.route \o item.k)
                    /\ OdGet(OdGet(routes[last.api], dest), last.route \o item.k) = item.v

\* C6 as amended: extend puts each bucket of the extended registry under the
\* base_url override when one is given, and otherwise under the extending
\* registry's own base_url, at route + path; buckets of different base_urls all
\* land under that one base_url, and of two that share a path the one of the
\* later base_url is kept.
C6_ExtendUsesOwnBaseUrl ==
    last.op = "extend" =>
        \A b \in DOMAIN pre.routes[last.other] :
            \A p \in DOMAIN pre.routes[last.other][b].v :
                LET theirs == pre.routes[last.other]
                    item == theirs[b].v[p]
                    dest == IF last.base_url # "" THEN last.base_url ELSE DefaultBaseUrl
                    kept == OdGet(theirs[LastBaseWith(theirs, item.k)].v, item.k)
                IN  /\ OdHas(routes[last.api], dest)
                    /\ OdHas(OdGet(routes[last.api], dest), last.route \o item.k)
                    /\ OdGet(OdGet(routes[last.api], dest), last.route \o item.k) = kept

\* An extend without override of a registry holding buckets under two
\* base_urls, one of them not the extending registry's.
C6_Witness ==
    /\ last.op = "extend"
    /\ last.base_url = ""
    /\ Cardinality(OdKeys(pre.routes[last.other])) = 2
    /\ \A b \in DOMAIN pre.routes[last.other] : pre.routes[last.other][b].v # <<>>
    /\ OdKeys(routes[last.api]) = {DefaultBaseUrl}

\* C14: after A.extend(B) every handler stored at a (base_url, path, method,
\* version) slot of B's route table is owned by A's API, and what A holds at
\* route + path for a path of B is one of B's own mappings of that path, the
\* same object with the same handlers, not a copy; B's table is as it was.
C14_ExtendReowns ==
    last.op = "extend" =>
        LET theirs == pre.routes[last.other]
            dest == IF last.base_url # "" THEN last.base_url ELSE DefaultBaseUrl
        IN  /\ \A e \in TableEntries(theirs, pre.buckets) : handlerApi[e[5]] = last.api
            /\ \A b \in DOMAIN theirs :
                   \A p \in DOMAIN theirs[b].v :
                       LET held == OdGet(OdGet(routes[last.api], dest),
                                         last.route \o theirs[b].v[p].k)
                       IN  /\ \E c \in DOMAIN theirs :
                                  /\ OdHas(theirs[c].v, theirs[b].v[p].k)
                                  /\ OdGet(theirs[c].v, theirs[b].v[p].k) = held
                           /\ buckets[held] = pre.buckets[held]
            /\ routes[last.other] = theirs

\* An extend of a registry that held two handlers it owned, under one path of
\* two base_urls: both are re-owned, one of them is reachable from the
\* extending registry.
C14_Witness ==
    /\ last.op = "extend"
    /\ Cardinality(OdKeys(pre.routes[last.other])) = 2
    /\ \A h \in Handlers :
           /\ h \in {e[5] : e \in TableEntries(pre.routes[last.other], pre.buckets)}
           /\ pre.handlerApi[h] = last.other
           /\ handlerApi[h] = last.api
    /\ Cardinality({e[5] : e \in TableEntries(routes[last.api], buckets)}) = 1

\* ------------------------------------------- exception handlers and extend
ExcVersionTuples == {<<v>> : v \in {NoneV} \cup (1..MaxVersion)} \cup {<<NoneV, 1>>}

NextExc ==
    \/ \E api \in Apis, k \in Kinds, vs \in ExcVersionTuples :
           AddExceptionHandler(api, k, ExcHandlerOf[api], vs)
    \/ \E self \in Apis, other \in Apis : HttpExtend(self, other, "", "")

SpecExc == Init /\ [][NextExc]_vars

\* The (version, kind, handler) entries of an exception-handler table.
ExcEntries(table) ==
    UNION {{<<table[v].k, table[v].v[k].k, table[v].v[k].v>> : k \in DOMAIN table[v].v} :
               v \in DOMAIN table}

\* The table has an entry for exactly this version and kind.
HasExcEntry(table, version, kind) ==
    \E e \in ExcEntries(table) : PyEq(e[1], version) /\ e[2] = kind

\* C2 as stated: for every (v, K) self's table has a handler for, if the
\* extended registry has no entry for exactly (v, K), it has self's handler
\* there after the call; what it had is kept and self's table is unchanged.
C2_BackfillExact ==
    last.op = "extend" =>
        /\ \A e \in ExcEntries(pre.exceptionHandlers[last.api]) :
               ~ HasExcEntry(pre.exceptionHandlers[last.other], e[1], e[2])
                   => e \in ExcEntries(exceptionHandlers[last.other])
        /\ ExcEntries(pre.exceptionHandlers[last.other])
               \subseteq ExcEntries(exceptionHandlers[last.other])
        /\ exceptionHandlers[last.api] = pre.exceptionHandlers[last.api]

\* C2 as amended: the test is made on exception_handlers(v), which falls back to
\* the None table. For every (v, K) self's table has a handler for, if the
\* extended registry has no entry for exactly (v, K) and, when it has no table
\* for v at all, neither its None table nor self's None table has K, then it
\* has self's handler at (v, K) after the call; what it had is kept, what it
\* gained is self's, and self's table is unchanged.
C2_BackfillThroughFallback ==
    last.op = "extend" =>
        LET own == pre.exceptionHandlers[last.api]
            theirs == pre.exceptionHandlers[last.other]
        IN  /\ \A e \in ExcEntries(own) :
                   (/\ ~ HasExcEntry(theirs, e[1], e[2])
                    /\ \/ e[1] = NoneV
                       \/ VHas(theirs, e[1])
                       \/ /\ ~ HasExcEntry(theirs, NoneV, e[2])
                          /\ ~ HasExcEntry(own, NoneV, e[2]))
                       => e \in ExcEntries(exceptionHandlers[last.other])
            /\ ExcEntries(theirs) \subseteq ExcEntries(exceptionHandlers[last.other])
            /\ ExcEntries(exceptionHandlers[last.other]) \subseteq
                   ExcEntries(theirs) \cup ExcEntries(own)
            /\ exceptionHandlers[last.api] = own

\* An extend that backfilled a versioned entry beside an entry the extended
\* registry had before.
C2_Witness ==
    /\ last.op = "extend"
    /\ \E e \in ExcEntries(pre.exceptionHandlers[last.api]) :
           /\ e[1] # NoneV
           /\ ~ HasExcEntry(pre.exceptionHandlers[last.other], e[1], e[2])
           /\ e \in ExcEntries(exceptionHandlers[last.other])
    /\ \E e \in ExcEntries(pre.exceptionHandlers[last.other]) :
           /\ HasExcEntry(pre.exceptionHandlers[last.api], e[1], e[2])
           /\ e \notin ExcEntries(pre.exceptionHandlers[last.api])

\* ------------------------------------- input formats, not-found and extend
DecoderOf == [A |-> "d1", B |-> "d2"]
NotFoundOf == [A |-> "nf1", B |-> "nf2"]

NextMerge ==
    \/ \E api \in Apis, c \in ContentTypes : SetInputFormat(api, c, DecoderOf[api])
    \/ \E api \in Apis, v \in {NoneV} \cup (1..MaxVersion) :
           SetNotFoundHandler(api, NotFoundOf[api], v)
    \/ \E self \in Apis, other \in Apis : HttpExtend(self, other, "", "")

SpecMerge == Init /\ [][NextMerge]_vars

\* merged is own with, after it, the keys only theirs has, each with the value
\* it has in theirs.
MergedKeepingOwn(merged, own, theirs) ==
    /\ OdKeys(merged) = OdKeys(own) \cup OdKeys(theirs)
    /\ \A key \in OdKeys(own) : OdGet(merged, key) = OdGet(own, key)
    /\ \A key \in OdKeys(theirs) \ OdKeys(own) : OdGet(merged, key) = OdGet(theirs, key)

\* C15: after self.extend(other), self's input formats map every content type
\* self had to the decoder it had and every content type only other had to
\* other's decoder; self's not-found handlers keep self's handler for every
\* version self had and gain other's for every version only other had.
C15_KeyedMergeKeepsOwn ==
    last.op = "extend" =>
        /\ MergedKeepingOwn(inputFormat[last.api], pre.inputFormat[last.api],
                            pre.inputFormat[last.other])
        /\ MergedKeepingOwn(notFoundHandlers[last.api], pre.notFoundHandlers[last.api],
                            pre.notFoundHandlers[last.other])

\* An extend where the two registries had different not-found handlers for
\* one version, and the extended one a content type of its own.
C15_Witness ==
    /\ last.op = "extend"
    /\ \E v \in OdKeys(pre.notFoundHandlers[last.api]) \cap OdKeys(pre.notFoundHandlers[last.other]) :
           /\ OdGet(pre.notFoundHandlers[last.api], v) # OdGet(pre.notFoundHandlers[last.other], v)
           /\ OdGet(notFoundHandlers[last.api], v) = OdGet(pre.notFoundHandlers[last.api], v)
    /\ \E c \in OdKeys(pre.inputFormat[last.other]) \ OdKeys(pre.inputFormat[last.api]) :
           OdGet(inputFormat[last.api], c) = OdGet(pre.inputFormat[last.other], c)

\* ------------------------------------------------------- frame of extend
MiddlewareOf == [A |-> "mw1", B |-> "mw2"]
StartupOf == [A |-> "up1", B |-> "up2"]
SinkOf == [A |-> "sink1", B |-> "sink2"]

NextFrame ==
    \/ \E api \in Apis : InsertRoute(api, DefaultBaseUrl, "/x", "GET", 1, done.insert + 1)
    \/ \E api \in Apis : AddMiddleware(api, MiddlewareOf[api])
    \/ \E api \in Apis : AddStartupHandler(api, StartupOf[api])
    \/ \E api \in Apis : AddSink(api, SinkOf[api], "/s", "")
    \/ \E api \in Apis : SetInputFormat(api, "json", DecoderOf[api])
    \/ \E api \in Apis : SetNotFoundHandler(api, NotFoundOf[api], NoneV)
    \/ \E api \in Apis : AddExceptionHandler(api, "KeyError", ExcHandlerOf[api], <<NoneV>>)
    \/ \E other \in Apis : HttpExtend("A", other, "/r", "")

SpecFrame == Init /\ [][NextFrame]_vars

\* Every member of T has an equal member in S.
Contains(S, T) == \A t \in T : \E w \in S : PyEq(w, t)

\* C16: self.extend(other) changes in other only the owners of its handlers
\* and its exception handlers, which gain entries; other's VersionSet, route
\* table (keys and handlers), sinks, middleware, startup handlers, input
\* formats and not-found handlers are as before; self's VersionSet,
\* middleware and startup handlers hold what they held and what other's hold.
C16_ExtendFrame ==
    last.op = "extend" =>
        LET self == last.api
            other == last.other
        IN  /\ versions[other] = pre.versions[other]
            /\ routes[other] = pre.routes[other]
            /\ TableEntries(routes[other], buckets) = TableEntries(pre.routes[other], pre.buckets)
            /\ sinks[other] = pre.sinks[other]
            /\ middleware[other] = pre.middleware[other]
            /\ startupHandlers[other] = pre.startupHandlers[other]
            /\ inputFormat[other] = pre.inputFormat[other]
            /\ notFoundHandlers[other] = pre.notFoundHandlers[other]
            /\ ExcEntries(pre.exceptionHandlers[other]) \subseteq ExcEntries(exceptionHandlers[other])
            /\ Contains(versions[self], pre.versions[self] \cup pre.versions[other])
            /\ pre.middleware[self] \cup pre.middleware[other] \subseteq middleware[self]
            /\ LET held == {startupHandlers[self][i] : i \in DOMAIN startupHandlers[self]}
               IN  \A t \in {self, other} :
                       \A i \in DOMAIN pre.startupHandlers[t] : pre.startupHandlers[t][i] \in held

\* An extend of a registry that declared a version, had a middleware and a
\* route of its own, all of which the extending registry lacked and gained.
C16_Witness ==
    /\ last.op = "extend"
    /\ ~ Contains(pre.versions[last.api], pre.versions[last.other])
    /\ ~ (pre.middleware[last.other] \subseteq pre.middleware[last.api])
    /\ pre.routes[last.api] = <<>>
    /\ routes[last.api] # <<>>
    /\ routes[last.other] # <<>>

\* ------------------------------------------------ exception handler lookup
\* A call of exception_handlers(version) on a registry.
ExceptionHandlers(api, version) ==
    /\ exitStatus = <<>>
    /\ result' = [table |-> exception_handlers(exceptionHandlers[api], version)]
    /\ last' = [op |-> "exception_handlers", api |-> api, version |-> version]
    /\ pre' = NewRegistries
    /\ hasHttp' = [hasHttp EXCEPT ![api] = TRUE]
    /\ UNCHANGED <<httpVars, directives, cliVars, objects, done>>

ExcHandlerFns == {ExcHandlerOf[a] : a \in Apis}
\* The error handler of the next registration: the two handlers take turns.
NextExcHandler == IF done.register % 2 = 0 THEN ExcHandlerOf["A"] ELSE ExcHandlerOf["B"]
LookupVersionTuples == ExcVersionTuples \cup {<<0>>}

NextLookup ==
    \/ \E k \in Kinds, vs \in LookupVersionTuples :
           AddExceptionHandler("A", k, NextExcHandler, vs)
    \/ \E v \in AllVersions : ExceptionHandlers("A", v)

SpecLookup == Init /\ [][NextLookup]_vars

\* The table registered for exactly this version (<<>>: none is).
ExcTableOf(table, version) ==
    IF \E i \in DOMAIN table : PyEq(table[i].k, version)
    THEN table[CHOOSE i \in DOMAIN table : PyEq(table[i].k, version)].v
    ELSE <<>>

\* What exception_handlers(v) is to return: the table of v, else that of None.
C12_LookupFallsBack ==
    last.op = "exception_handlers" =>
        LET own == ExcTableOf(exceptionHandlers[last.api], last.version)
            default == ExcTableOf(exceptionHandlers[last.api], NoneV)
        IN  result.table = IF own # <<>> THEN own ELSE default

\* What add_exception_handler(kind, h, versions) is to change: in the table of
\* each listed version, kind maps to h and the other kinds are as before; the
\* tables of the other versions and of the other registries are as before.
C12_AddChangesListedVersions ==
    last'.op = "add_exception_handler" =>
        \A k \in Kinds, h \in ExcHandlerFns, vs \in LookupVersionTuples :
            AddExceptionHandler(last'.api, k, h, vs) =>
                /\ \A v \in AllVersions :
                       LET before == ExcTableOf(exceptionHandlers[last'.api], v)
                           after == ExcTableOf(exceptionHandlers'[last'.api], v)
                       IN  IF \E i \in DOMAIN vs : PyEq(vs[i], v)
                           THEN /\ OdHas(after, k) /\ OdGet(after, k) = h
                                /\ OdKeys(after) = OdKeys(before) \cup {k}
                                /\ \A j \in OdKeys(before) \ {k} :
                                       OdGet(after, j) = OdGet(before, j)
                           ELSE after = before
                /\ \A other \in Apis \ {last'.api} :
                       exceptionHandlers'[other] = exceptionHandlers[other]

\* C12: after any sequence of add_exception_handler calls, exception_handlers(v)
\* returns the table registered for version v when there is one, otherwise the
\* table registered for None, and None only when there is neither;
\* add_exception_handler adds or replaces the entry of the kind in the table of
\* each listed version and changes no other version's table.
C12_ExceptionHandlerLookup ==
    [] C12_LookupFallsBack /\ [][C12_AddChangesListedVersions]_vars

\* A lookup for a version without a table of its own that returned the None
\* table, on a registry that has a different table for another version.
C12_Witness ==
    /\ last.op = "exception_handlers"
    /\ last.version \in 1..MaxVersion
    /\ ExcTableOf(exceptionHandlers[last.api], last.version) = <<>>
    /\ result.table # <<>>
    /\ result.table = ExcTableOf(exceptionHandlers[last.api], NoneV)
    /\ \E v \in 1..MaxVersion :
           ExcTableOf(exceptionHandlers[last.api], v) \notin {<<>>, result.table}

\* ------------------------------------------------------ determine_version
\* str(n) of a version n >= 0, as a sequence of characters.
RECURSIVE Digits(_)
Digits(n) == IF n < 10 THEN <<ToString(n)>> ELSE Digits(n \div 10) \o <<ToString(n % 10)>>

\* "v{0}".format(version)
VersionTag(version) == <<"v">> \o Digits(version)

\* needle in hay, for strings as sequences of characters.
IsSubstring(needle, hay) ==
    \E i \in 0..(Len(hay) - Len(needle)) :
        \A j \in 1..Len(needle) : hay[i + j] = needle[j]

\* The members of the VersionSet the inference loop can stop at: the set is
\* walked in an arbitrary order, up to the first truthy member whose tag
\* occurs in the path.
InferredVersions(versionSet, path) ==
    {v \in versionSet : Truthy(v) /\ IsSubstring(VersionTag(v), path)}

\* The rest of determine_version, from the api_version the first step leaves.
ResolveVersion(api_version) ==
    LET request_version == IF api_version # NoneV THEN {api_version} ELSE {}
    IN  IF Cardinality(request_version) > 1
        THEN [raised |-> TRUE, value |-> NoneV]
        ELSE [raised |-> FALSE,
              value |-> IF request_version = {} THEN NoneV
                        ELSE CHOOSE v \in request_version : TRUE]

\* determine_version(request, api_version): the outcomes it can have.
determine_version(versionSet, path, api_version) ==
    IF api_version = FalseV
    THEN IF InferredVersions(versionSet, path) = {} THEN {ResolveVersion(NoneV)}
         ELSE {ResolveVersion(v) : v \in InferredVersions(versionSet, path)}
    ELSE {ResolveVersion(api_version)}

DetermineVersion(api, path, api_version) ==
    /\ exitStatus = <<>>
    /\ result' \in determine_version(versions[api], path, api_version)
    /\ last' = [op |-> "determine_version", api |-> api, path |-> path,
                api_version |-> api_version]
    /\ pre' = NewRegistries
    /\ hasHttp' = [hasHttp EXCEPT ![api] = TRUE]
    /\ UNCHANGED <<httpVars, directives, cliVars, objects, done>>

RequestPaths ==
    {<<"/", "x">>}
        \cup {<<"/">> \o VersionTag(n) \o <<"/", "x">> : n \in ConcreteVersions}
        \cup {<<"/">> \o VersionTag(n) \o <<"/">> \o VersionTag(m) :
                  n \in 1..MaxVersion, m \in 1..MaxVersion}

NextVersion ==
    \/ \E api \in Apis, v \in AllVersions : DeclareVersion(api, v)
    \/ \E api \in Apis, p \in RequestPaths, v \in AllVersions : DetermineVersion(api, p, v)

SpecVersion == Init /\ [][NextVersion]_vars

\* The declared versions, None and False apart, whose tag occurs in the path.
PathVersions(versionSet, path) ==
    {v \in versionSet : v \notin {NoneV, FalseV} /\ IsSubstring(VersionTag(v), path)}

\* C3: an explicit concrete version with a path that implies a different
\* declared version makes determine_version raise; when the two agree it
\* returns that version.
C3_ConflictingVersionsRaise ==
    (last.op = "determine_version" /\ last.api_version \notin {NoneV, FalseV}) =>
        LET implied == PathVersions(versions[last.api], last.path)
        IN  /\ (\E v \in implied : ~ PyEq(v, last.api_version)) => result.raised
            /\ (implied # {} /\ \A v \in implied : PyEq(v, last.api_version))
                   => (~ result.raised /\ result.value = last.api_version)

\* C9: called with False, determine_version returns a declared version other
\* than None/False whose tag occurs in the path whenever there is one
\* (a declared 0 included) and None exactly when there is none; called with a
\* concrete version or None it returns that value, whatever the path.
C9_VersionInference ==
    last.op = "determine_version" =>
        /\ ~ result.raised
        /\ IF last.api_version = FalseV
           THEN IF PathVersions(versions[last.api], last.path) # {}
                THEN result.value \in PathVersions(versions[last.api], last.path)
                ELSE result.value = NoneV
           ELSE result.value = last.api_version

\* ---------------------------------------------------------- version_router
\* The handler a versions map holds under a version key, and the callable
\* passed as not_found.
RouterHandler(key) == <<"handler", key>>
RouterNotFound == <<"not_found">>

\* A set of version keys as a versions map (a lookup does not depend on the
\* order of the keys).
RECURSIVE RouterMap(_)
RouterMap(keys) ==
    IF keys = {} THEN <<>>
    ELSE LET key == CHOOSE k \in keys : \A other \in keys : k <= other
         IN  <<[k |-> key, v |-> RouterHandler(key)]>> \o RouterMap(keys \ {key})

RouterKeys == {NoneV} \cup ConcreteVersions
RouterMaps == {RouterMap(keys) : keys \in SUBSET RouterKeys}

\* version_router(request, response, api_version, versions, not_found): the
\* version it resolved and the callable it invoked, for each outcome of
\* determine_version.
version_router(versionSet, path, api_version, map, not_found_fn) ==
    {LET request_version == outcome.value
         key == IF Truthy(request_version) THEN request_version ELSE FalseV
     IN  [resolved |-> request_version,
          invoked |-> VGetOr(map, key, VGetOr(map, NoneV, not_found_fn))] :
     outcome \in determine_version(versionSet, path, api_version)}

VersionRouter(api, path, api_version, map) ==
    /\ exitStatus = <<>>
    /\ result' \in version_router(versions[api], path, api_version, map, RouterNotFound)
    /\ last' = [op |-> "version_router", api |-> api, path |-> path,
                api_version |-> api_version, versions |-> map]
    /\ pre' = NewRegistries
    /\ hasHttp' = [hasHttp EXCEPT ![api] = TRUE]
    /\ UNCHANGED <<httpVars, directives, cliVars, objects, done>>

NextRouter ==
    \/ \E v \in ConcreteVersions : DeclareVersion("A", v)
    \/ \E p \in RequestPaths, v \in AllVersions, map \in RouterMaps :
           VersionRouter("A", p, v, map)

SpecRouter == Init /\ [][NextRouter]_vars

\* C20: version_router invokes the handler stored under the resolved version
\* when that version is a key of the versions map, the handler stored under
\* None when it is not, and the passed not_found only when there is no None
\* handler either; never a handler of another concrete version.
C20_RouterInvokesResolved ==
    last.op = "version_router" =>
        result.invoked =
            IF \E i \in DOMAIN last.versions : last.versions[i].k = result.resolved
            THEN RouterHandler(result.resolved)
            ELSE IF \E i \in DOMAIN last.versions : last.versions[i].k = NoneV
                 THEN RouterHandler(NoneV)
                 ELSE RouterNotFound

\* -------------------------------------------------------------- aio_server
\* '%s' % ver
VersionText(ver) ==
    IF ver = FalseV THEN "False" ELSE IF ver = NoneV THEN "None" ELSE ToString(ver)

\* routers[method_function]: the copy aio_server makes of a method's
\* version -> handler dict.
Routers(byVersion) ==
    IF Len(byVersion) = 1 /\ NoneV \in VKeys(byVersion)
    THEN <<[k |-> NoneV, v |-> VGet(byVersion, NoneV)]>>
    ELSE byVersion

\* The add_route call for the unversioned entry of a method, if it has one.
UnversionedRoutes(router, base_url, url, method) ==
    IF VHas(router, NoneV)
    THEN {[handler |-> VGet(router, NoneV), uri |-> base_url \o url, method |-> method]}
    ELSE {}

\* The mutant of VersionedRoutes that registers a declared version only where
\* the method has a handler of that version.
VersionedRoutesWithoutFill(router, versionSet, base_url, url, method) ==
    {[handler |-> VGet(router, ver),
      uri |-> base_url \o "/v" \o VersionText(ver) \o url,
      method |-> method] : ver \in {v \in versionSet : v # NoneV /\ VHas(router, v)}}

\* The add_route calls for the declared versions: the handler of the version,
\* else the handler under the first key of the method's dict.
VersionedRoutes(router, versionSet, base_url, url, method) ==
    {[handler |-> IF VHas(router, ver) THEN VGet(router, ver) ELSE router[1].v,
      uri |-> base_url \o "/v" \o VersionText(ver) \o url,
      method |-> method] : ver \in {v \in versionSet : v # NoneV}}

\* Every add_route call of aio_server, as a set.
AppRoutes(table, heap, versionSet) ==
    UNION {UNION {UNION {
        LET router == Routers(heap[table[b].v[p].v][m].v)
            method == heap[table[b].v[p].v][m].k
        IN  UnversionedRoutes(router, table[b].k, table[b].v[p].k, method)
                \cup VersionedRoutes(router, versionSet, table[b].k, table[b].v[p].k, method) :
        m \in DOMAIN heap[table[b].v[p].v]} :
        p \in DOMAIN table[b].v} :
        b \in DOMAIN table}

\* The handler aio_server installs as app._not_found ("None": none installed).
NotFoundHandler(table, default_not_found) ==
    LET default == IF default_not_found THEN "documentation_404" ELSE "None"
    IN  IF table # <<>> /\ Len(table) = 1 /\ VHas(table, NoneV)
        THEN VGet(table, NoneV)
        ELSE default

AioServer(api, default_not_found) ==
    /\ exitStatus = <<>>
    /\ result' = [routes |-> AppRoutes(routes[api], buckets, versions[api]),
                  not_found |-> NotFoundHandler(notFoundHandlers[api], default_not_found)]
    /\ last' = [op |-> "aio_server", api |-> api, default_not_found |-> default_not_found]
    /\ pre' = NewRegistries
    /\ hasHttp' = [hasHttp EXCEPT ![api] = TRUE]
    /\ UNCHANGED <<httpVars, directives, cliVars, objects, done>>

\* The not_found property: no method of the class assigns _not_found, so the
\* getattr default, base_404, is what it returns.
not_found(table) == "base_404"

NotFoundProperty(api) ==
    /\ exitStatus = <<>>
    /\ result' = [not_found |-> not_found(notFoundHandlers[api])]
    /\ last' = [op |-> "not_found", api |-> api]
    /\ pre' = NewRegistries
    /\ hasHttp' = [hasHttp EXCEPT ![api] = TRUE]
    /\ UNCHANGED <<httpVars, directives, cliVars, objects, done>>

ServerPaths == {"/x", "/y"}
ServerMethods == {"GET", "POST"}

NextServer ==
    \/ \E p \in ServerPaths, m \in ServerMethods, v \in {NoneV} \cup (1..MaxVersion) :
           InsertRoute("A", DefaultBaseUrl, p, m, v, done.insert + 1)
    \/ \E v \in AllVersions : DeclareVersion("A", v)
    \/ \E d \in BOOLEAN : AioServer("A", d)

SpecServer == Init /\ [][NextServer]_vars

\* C4: when the VersionSet holds concrete versions only and a (base_url, path,
\* method) has a handler under None alone, the route of every declared version
\* of that path and method is bound to that handler, and to no other.
C4_FillMissingVersions ==
    (last.op = "aio_server" /\ versions[last.api] \subseteq ConcreteVersions) =>
        \A e \in TableEntries(routes[last.api], buckets) :
            (/\ e[4] = NoneV
             /\ \A f \in TableEntries(routes[last.api], buckets) :
                    (f[1] = e[1] /\ f[2] = e[2] /\ f[3] = e[3]) => f = e)
                => \A v \in versions[last.api] :
                       \A r \in [handler : Handlers,
                                 uri : {e[1] \o "/v" \o ToString(v) \o e[2]},
                                 method : {e[3]}] :
                           r \in result.routes <=> r.handler = e[5]

\* aio_server on a registry declaring 1 and 2 that has a handler under None
\* alone for some path and method, and a versioned handler elsewhere.
C4_Witness ==
    /\ last.op = "aio_server"
    /\ versions[last.api] = {1, 2}
    /\ \E e \in TableEntries(routes[last.api], buckets) :
           /\ e[4] = NoneV
           /\ \A f \in TableEntries(routes[last.api], buckets) :
                  (f[1] = e[1] /\ f[2] = e[2] /\ f[3] = e[3]) => f = e
           /\ \A v \in {1, 2} :
                  [handler |-> e[5], uri |-> e[1] \o "/v" \o ToString(v) \o e[2],
                   method |-> e[3]] \in result.routes

\* The (base_url, path, method) triples of a route table.
MethodBuckets(table, heap) == {<<e[1], e[2], e[3]>> : e \in TableEntries(table, heap)}

\* C11: for every (base_url, path, method) the URLs aio_server registers are
\* base_url + path when there is an unversioned entry, and base_url + "/v" +
\* version + path for each concrete declared version, each bound to that
\* method; nothing is registered for the sentinels None and False of the
\* VersionSet.
C11_RegistrationBoundary ==
    last.op = "aio_server" =>
        {<<r.uri, r.method>> : r \in result.routes} =
            UNION {{<<t[1] \o t[2], t[3]>> : x \in {e \in TableEntries(routes[last.api], buckets) :
                                                       <<e[1], e[2], e[3]>> = t /\ e[4] = NoneV}}
                   \cup {<<t[1] \o "/v" \o ToString(v) \o t[2], t[3]>> :
                             v \in versions[last.api] \cap ConcreteVersions} :
                       t \in MethodBuckets(routes[last.api], buckets)}

\* ---------------------------------------------------------- the fill pass
MaxFillInserts == 4

NextFill ==
    \/ \E p \in ServerPaths, v \in {NoneV, 1}, h \in Handlers :
           done.insert < MaxFillInserts /\ InsertRoute("A", DefaultBaseUrl, p, "GET", v, h)
    \/ \E v \in 1..MaxVersion : DeclareVersion("A", v)
    \/ AioServer("A", TRUE)

SpecFill == Init /\ [][NextFill]_vars

\* The version -> handler pairs a route table holds under (base_url, path, method).
SlotContents(table, heap, t) ==
    {<<e[4], e[5]>> : e \in {f \in TableEntries(table, heap) : <<f[1], f[2], f[3]>> = t}}

\* C19: the handler aio_server binds to the route of a declared version that
\* has no handler under a (base_url, path, method) depends on the version ->
\* handler pairs held there only: two such slots with the same pairs, in
\* whatever order they were inserted, get the same handler for that version.
C19_FillIndependentOfOrder ==
    last.op = "aio_server" =>
        \A t, u \in MethodBuckets(routes[last.api], buckets) :
            SlotContents(routes[last.api], buckets, t) = SlotContents(routes[last.api], buckets, u)
                => \A v \in versions[last.api] \cap ConcreteVersions :
                       (~ \E c \in SlotContents(routes[last.api], buckets, t) : PyEq(c[1], v))
                           => \A r, q \in result.routes :
                                  (/\ r.uri = t[1] \o "/v" \o ToString(v) \o t[2]
                                   /\ r.method = t[3]
                                   /\ q.uri = u[1] \o "/v" \o ToString(v) \o u[2]
                                   /\ q.method = u[3])
                                      => r.handler = q.handler

\* ------------------------------------------------------ not-found handlers
NextNotFound ==
    \/ \E api \in Apis, h \in NotFoundFns, v \in {NoneV} \cup (1..MaxVersion) :
           SetNotFoundHandler(api, h, v)
    \/ \E self \in Apis, other \in Apis : HttpExtend(self, other, "", "")
    \/ \E api \in Apis, d \in BOOLEAN : AioServer(api, d)
    \/ \E api \in Apis : NotFoundProperty(api)

SpecNotFound == Init /\ [][NextNotFound]_vars

\* The handlers of a not-found table.
NotFoundValues(table) == {table[i].v : i \in DOMAIN table}

\* C10: the documentation 404 handler is used only when the not-found table is
\* empty; when the table is not empty, the handler aio_server installs and the
\* one the not_found property reports are handlers of the table.
C10_NotFoundFromTable ==
    /\ last.op = "aio_server" =>
           /\ result.not_found = "documentation_404" => notFoundHandlers[last.api] = <<>>
           /\ notFoundHandlers[last.api] # <<>> =>
                  result.not_found \in NotFoundValues(notFoundHandlers[last.api])
    /\ last.op = "not_found" =>
           (notFoundHandlers[last.api] # <<>> =>
                result.not_found \in NotFoundValues(notFoundHandlers[last.api]))

\* ----------------------------------------------------------- documentation
\* The handlers created with private=True (the second handler registered).
PrivateHandlers == {h \in Handlers : h = 2}

\* A sequence of sequences, joined.
RECURSIVE Concat(_)
Concat(seqs) == IF seqs = <<>> THEN <<>> ELSE Head(seqs) \o Concat(Tail(seqs))

\* A sequence, reversed.
Reverse(seq) == [i \in DOMAIN seq |-> seq[Len(seq) + 1 - i]]

\* The mutant of RouteSeq that visits the entries from the last to the first.
RouteSeqBackwards(table, heap) ==
    Reverse(Concat([b \in DOMAIN table |->
        Concat([p \in DOMAIN table[b].v |->
            Concat([m \in DOMAIN heap[table[b].v[p].v] |->
                [v \in DOMAIN heap[table[b].v[p].v][m].v |->
                    [base_url |-> table[b].k, url |-> table[b].v[p].k,
                     method |-> heap[table[b].v[p].v][m].k,
                     version |-> heap[table[b].v[p].v][m].v[v].k,
                     handler |-> heap[table[b].v[p].v][m].v[v].v]]])])]))

\* The (base_url, url, method, version, handler) entries of a route table in
\* the order the four nested loops of documentation visit them.
RouteSeq(table, heap) ==
    Concat([b \in DOMAIN table |->
        Concat([p \in DOMAIN table[b].v |->
            Concat([m \in DOMAIN heap[table[b].v[p].v] |->
                [v \in DOMAIN heap[table[b].v[p].v][m].v |->
                    [base_url |-> table[b].k, url |-> table[b].v[p].k,
                     method |-> heap[table[b].v[p].v][m].k,
                     version |-> heap[table[b].v[p].v][m].v[v].k,
                     handler |-> heap[table[b].v[p].v][m].v[v].v]]])])])

\* versions_list: the VersionSet as a list with None and False removed
\* (list.remove(False) removes a 0 as well, for 0 == False).
VersionsList(versionSet) == {v \in versionSet : v # NoneV /\ ~ PyEq(v, FalseV)}

SetMax(S) == CHOOSE m \in S : \A x \in S : x <= m

\* The api_version the handler loop filters by.
DocApiVersion(versionSet, api_version) ==
    IF api_version = NoneV /\ VersionsList(versionSet) # {}
    THEN SetMax(VersionsList(versionSet))
    ELSE api_version

\* handler.documentation(add_to, version=...): the fragment of a method, kept
\* as the set of (handler, version) pairs that contributed to it.
HandlerDocumentation(fragment, handler, vers) == fragment \cup {<<handler, v>> : v \in vers}

\* The versions of an entry that pass the api_version filter.
DocApplies(entry, versionSet, api_version) ==
    LET applies_to == IF entry.version = NoneV THEN versionSet ELSE {entry.version}
    IN  {v \in applies_to : ~ (Truthy(api_version) /\ ~ PyEq(v, api_version))}

\* The mutant of DocHandlers that documents private handlers too.
RECURSIVE DocHandlersWithPrivate(_, _, _, _)
DocHandlersWithPrivate(version_dict, entries, versionSet, api_version) ==
    IF entries = <<>> THEN version_dict
    ELSE LET e == Head(entries)
             shown == DocApplies(e, versionSet, api_version)
             key == e.base_url \o e.url
             doc == OdGetOr(version_dict, key, <<>>)
         IN  DocHandlersWithPrivate(
                 IF shown = {} THEN version_dict
                 ELSE OdPut(version_dict, key,
                            OdPut(doc, e.method,
                                  HandlerDocumentation(OdGetOr(doc, e.method, {}),
                                                       e.handler, shown))),
                 Tail(entries), versionSet, api_version)

\* The handler loop of documentation: version_dict after the entries.
RECURSIVE DocHandlers(_, _, _, _)
DocHandlers(version_dict, entries, versionSet, api_version) ==
    IF entries = <<>> THEN version_dict
    ELSE LET e == Head(entries)
             shown == DocApplies(e, versionSet, api_version)
             key == e.base_url \o e.url
             doc == OdGetOr(version_dict, key, <<>>)
         IN  DocHandlers(
                 IF e.handler \in PrivateHandlers \/ shown = {} THEN version_dict
                 ELSE OdPut(version_dict, key,
                            OdPut(doc, e.method,
                                  HandlerDocumentation(OdGetOr(doc, e.method, {}),
                                                       e.handler, shown))),
                 Tail(entries), versionSet, api_version)

\* documentation(api_version=...): the 'version', 'versions' and 'handlers'
\* keys of the document ("unset": the key is absent).
documentation(table, heap, versionSet, api_version) ==
    LET version == DocApiVersion(versionSet, api_version)
    IN  [version |-> IF version # NoneV THEN <<version>> ELSE <<>>,
         versions |-> VersionsList(versionSet),
         handlers |-> DocHandlers(<<>>, RouteSeq(table, heap), versionSet, version)]

Documentation(api, api_version) ==
    /\ exitStatus = <<>>
    /\ result' = documentation(routes[api], buckets, versions[api], api_version)
    /\ last' = [op |-> "documentation", api |-> api, api_version |-> api_version]
    /\ pre' = NewRegistries
    /\ hasHttp' = [hasHttp EXCEPT ![api] = TRUE]
    /\ UNCHANGED <<httpVars, directives, cliVars, objects, done>>

NextDoc ==
    \/ \E p \in ServerPaths, m \in ServerMethods, v \in {NoneV} \cup ConcreteVersions :
           InsertRoute("A", DefaultBaseUrl, p, m, v, done.insert + 1)
    \/ \E v \in {NoneV, FalseV} : DeclareVersion("A", v)
    \/ \E v \in {NoneV} \cup ConcreteVersions : Documentation("A", v)

SpecDoc == Init /\ [][NextDoc]_vars

\* The (url, method) pairs under 'handlers' of a document.
Documented(doc) ==
    UNION {{<<doc.handlers[u].k, doc.handlers[u].v[m].k>> : m \in DOMAIN doc.handlers[u].v} :
               u \in DOMAIN doc.handlers}

\* C8 as stated: private handlers are skipped; with no api_version requested
\* every entry with a handler that is not private is documented, whatever its
\* version and the VersionSet; with a concrete api_version requested exactly
\* the entries whose version matches it are (an unversioned entry matches
\* every declared version).
C8_DocumentationSelection ==
    last.op = "documentation" =>
        LET entries == {e \in TableEntries(routes[last.api], buckets) :
                            e[5] \notin PrivateHandlers}
            matching == {e \in entries :
                            \/ PyEq(e[4], last.api_version)
                            \/ /\ e[4] = NoneV
                               /\ \E v \in versions[last.api] : PyEq(v, last.api_version)}
        IN  Documented(result) =
                IF last.api_version = NoneV
                THEN {<<e[1] \o e[2], e[3]>> : e \in entries}
                ELSE {<<e[1] \o e[2], e[3]>> : e \in matching}

\* C8 as amended: private handlers are skipped; the filter is the requested
\* api_version or, when none is requested, the largest declared version other
\* than None, False and 0; with a filter other than None and 0, exactly the
\* entries whose version matches it are documented (an unversioned entry
\* matches every member of the VersionSet); with no filter, or the filter 0,
\* every entry of a concrete version is documented, and an unversioned entry
\* is when the VersionSet is not empty.
C8_DocumentationSelectionByFilter ==
    last.op = "documentation" =>
        LET entries == {e \in TableEntries(routes[last.api], buckets) :
                            e[5] \notin PrivateHandlers}
            declared == versions[last.api] \ {NoneV, FalseV, 0}
            filter == IF last.api_version = NoneV /\ declared # {}
                      THEN SetMax(declared) ELSE last.api_version
            matching == {e \in entries :
                            IF filter \in {NoneV, 0}
                            THEN e[4] # NoneV \/ versions[last.api] # {}
                            ELSE e[4] = filter
                                     \/ (e[4] = NoneV /\ filter \in versions[last.api])}
        IN  Documented(result) = {<<e[1] \o e[2], e[3]>> : e \in matching}

\* A documentation call with no api_version on a registry that declares 1 and
\* 2, has a handler of version 1 left out and a private handler left out.
C8_Witness ==
    /\ last.op = "documentation"
    /\ last.api_version = NoneV
    /\ {1, 2} \subseteq versions[last.api]
    /\ \E e \in TableEntries(routes[last.api], buckets) :
           /\ e[4] = 1
           /\ e[5] \notin PrivateHandlers
           /\ <<e[1] \o e[2], e[3]>> \notin Documented(result)
    /\ \E e \in TableEntries(routes[last.api], buckets) :
           /\ e[4] = 2
           /\ e[5] \in PrivateHandlers
           /\ <<e[1] \o e[2], e[3]>> \notin Documented(result)

\* ---------------------------------------------------- documentation order
MaxDocInserts == 3

\* The handler of the next registration: the handlers take turns.
NextHandler == (done.insert % MaxHandlers) + 1

NextDocOrder ==
    \/ \E api \in Apis, b \in RouteBases, p \in RoutePaths, s \in RouteSlots :
           /\ done.insert < MaxDocInserts
           /\ api = "B" => b = DefaultBaseUrl
           /\ InsertRoute(api, b, p, s[1], s[2], NextHandler)
    \/ \E other \in Apis : HttpExtend("A", other, "", "")
    \/ \E v \in {NoneV, 1} : Documentation("A", v)

SpecDocOrder == Init /\ [][NextDocOrder]_vars

\* The (base_url, path) pairs of a route table in the order of its base_urls
\* and, within a base_url, of its paths.
PathPairs(table) ==
    Concat([b \in DOMAIN table |->
        [p \in DOMAIN table[b].v |-> <<table[b].k, table[b].v[p].k>>]])

\* The first position of x in a sequence.
Pos(seq, x) ==
    CHOOSE i \in DOMAIN seq : seq[i] = x /\ \A j \in DOMAIN seq : seq[j] = x => i <= j

\* The keys of 'handlers' are listed in the order of the route table.
C13_DocFollowsTable ==
    last.op = "documentation" =>
        LET pairs == PathPairs(routes[last.api])
            urls == [i \in DOMAIN pairs |-> pairs[i][1] \o pairs[i][2]]
            keys == [i \in DOMAIN result.handlers |-> result.handlers[i].k]
        IN  \A i, j \in DOMAIN keys :
                i < j => /\ \E n \in DOMAIN urls : urls[n] = keys[i]
                         /\ \E n \in DOMAIN urls : urls[n] = keys[j]
                         /\ Pos(urls, keys[i]) < Pos(urls, keys[j])

\* No step moves a (base_url, path) a route table holds, and one it gains comes
\* after the ones it held under the same base_url, a new base_url after the
\* base_urls it held.
C13_TableKeepsFirstInsertionOrder ==
    \A api \in Apis :
        LET before == PathPairs(routes[api])
            after == PathPairs(routes'[api])
            old == {before[i] : i \in DOMAIN before}
            new == {after[i] : i \in DOMAIN after} \ old
        IN  /\ \A i, j \in DOMAIN before :
                   i < j => /\ \E n \in DOMAIN after : after[n] = before[i]
                            /\ \E n \in DOMAIN after : after[n] = before[j]
                            /\ Pos(after, before[i]) < Pos(after, before[j])
            /\ \A n \in new, o \in old :
                   (o[1] = n[1] \/ ~ \E q \in old : q[1] = n[1])
                       => Pos(after, o) < Pos(after, n)

\* C13: the keys of the 'handlers' section of documentation() follow the order
\* in which the base_urls, and within a base_url the paths, were first inserted
\* into the route table, whatever the order of the methods and versions
\* inserted within a path; an overwrite of a path by insert or extend does not
\* move it.
C13_DocumentationOrder ==
    [] C13_DocFollowsTable /\ [][C13_TableKeepsFirstInsertionOrder]_vars

\* A document listing two urls after three registrations, the first url one
\* that has two methods in the route table (one of them registered after the
\* second url, or the second url registered after both).
C13_Witness ==
    /\ last.op = "documentation"
    /\ Len(result.handlers) >= 2
    /\ done.insert = MaxDocInserts
    /\ \E b \in DOMAIN routes[last.api] :
           \E p \in DOMAIN routes[last.api][b].v :
               /\ routes[last.api][b].k \o routes[last.api][b].v[p].k = result.handlers[1].k
               /\ Len(buckets[routes[last.api][b].v[p].v]) = 2

\* ------------------------------------------------- aliasing after extend
MaxAliasInserts == 3

NextAlias ==
    \/ \E api \in Apis, b \in RouteBases, p \in RoutePaths, s \in RouteSlots :
           /\ done.insert < MaxAliasInserts
           /\ InsertRoute(api, b, p, s[1], s[2], NextHandler)
    \/ \E self \in Apis, other \in Apis, r \in RoutePrefixes : HttpExtend(self, other, r, "")

SpecAlias == Init /\ [][NextAlias]_vars

\* The (base_url, path, mapping object) slots of a route table.
Slots(table) ==
    UNION {{<<table[b].k, table[b].v[p].k, table[b].v[p].v>> : p \in DOMAIN table[b].v} :
               b \in DOMAIN table}

\* Right after A.extend(B, route), what A holds at route + path is, for every
\* path B holds under any of its base_urls, the very mapping B holds there.
C21_ExtendAliases ==
    last.op = "extend" =>
        LET dest == IF last.base_url # "" THEN last.base_url ELSE DefaultBaseUrl
        IN  /\ routes[last.other] = pre.routes[last.other]
            /\ \A t \in Slots(routes[last.other]) :
                   <<dest, last.route \o t[2], t[3]>> \in Slots(routes[last.api])

\* A registration keeps two slots that hold one mapping object on that object;
\* made at a path a registry holds, it shows in every slot of either registry
\* that holds the same mapping; made at a new path, it leaves the other
\* registries' entries as they were.
C21_RegistrationsKeepAliases ==
    last'.op = "insert" =>
        LET changed == <<last'.base_url, last'.path>>
            inPlace == \E t \in Slots(routes[last'.api]) : <<t[1], t[2]>> = changed
        IN  /\ \A x, y \in Apis :
                   \A t \in Slots(routes[x]), u \in Slots(routes[y]) :
                       t[3] = u[3] => /\ t \in Slots(routes'[x])
                                      /\ u \in Slots(routes'[y])
            /\ inPlace =>
                   \A t \in Slots(routes'[last'.api]) :
                       <<t[1], t[2]>> = changed =>
                           \A y \in Apis :
                               \A u \in Slots(routes'[y]) :
                                   u[3] = t[3] =>
                                       <<u[1], u[2], last'.method, last'.version, last'.handler>>
                                           \in TableEntries(routes'[y], buckets')
            /\ ~ inPlace =>
                   \A y \in Apis \ {last'.api} :
                       TableEntries(routes'[y], buckets') = TableEntries(routes[y], buckets)

\* C21: A.extend(B) stores B's per-path mapping in A by reference: for every
\* path that came from B, A's mapping at route + path and B's mapping at path
\* are one object and stay equal under the registrations made later through
\* either registry at that path, while a registration of a new path in one
\* registry does not appear in the other.
C21_BucketAliasing ==
    [] C21_ExtendAliases /\ [][C21_RegistrationsKeepAliases]_vars

\* ------------------------------------------------ directives and API.extend
DirectiveNames == {"user", "session"}

\* The directive function of that name defined for an API's module.
DirectiveOf(api, name) == [name |-> name, module |-> api]

\* add_directive on the directive dict of an API: keyed by directive.__name__.
add_directive(table, directive) == OdPut(table, directive.name, directive)

AddDirective(api, directive) ==
    /\ done.register < MaxRegisters
    /\ exitStatus = <<>>
    /\ directives' = [directives EXCEPT ![api] = add_directive(@, directive)]
    /\ last' = [op |-> "add_directive", api |-> api]
    /\ pre' = NewRegistries
    /\ result' = "none"
    /\ done' = [done EXCEPT !.register = @ + 1]
    /\ UNCHANGED <<httpVars, hasHttp, cliVars, objects>>

\* The mutant of ExtendDirectives that keeps the extending API's own directive
\* on a name it already has.
RECURSIVE ExtendDirectivesKeepingOwn(_, _)
ExtendDirectivesKeepingOwn(own, others) ==
    IF others = <<>> THEN own
    ELSE ExtendDirectivesKeepingOwn(
             IF OdHas(own, Head(others).v.name) THEN own
             ELSE add_directive(own, Head(others).v),
             Tail(others))

\* The directive loop of API.extend: add_directive for every value of the
\* extended API's dict.
RECURSIVE ExtendDirectives(_, _)
ExtendDirectives(own, others) ==
    IF others = <<>> THEN own
    ELSE ExtendDirectives(add_directive(own, Head(others).v), Tail(others))

\* API.extend(api, route, base_url) for two distinct API objects.
ApiExtend(self, api, route, base_url) ==
    /\ self # api
    /\ done.extend < MaxExtends
    /\ exitStatus = <<>>
    /\ IF hasHttp[api]
       THEN /\ ExtendEffect(self, api, route, base_url)
            /\ hasHttp' = [hasHttp EXCEPT ![self] = TRUE]
       ELSE UNCHANGED <<httpVars, hasHttp>>
    /\ directives' = [directives EXCEPT ![self] = ExtendDirectives(@, directives[api])]
    /\ last' = [op |-> "api_extend", api |-> self, other |-> api, route |-> route,
                base_url |-> base_url]
    /\ pre' = Snapshot
    /\ result' = "none"
    /\ done' = [done EXCEPT !.extend = @ + 1]
    /\ UNCHANGED <<cliVars, objects>>

NextDirective ==
    \/ \E api \in Apis, n \in DirectiveNames : AddDirective(api, DirectiveOf(api, n))
    \/ \E api \in Apis, v \in 1..MaxVersion : DeclareVersion(api, v)
    \/ \E self \in Apis, other \in Apis : ApiExtend(self, other, "", "")

SpecDirective == Init /\ [][NextDirective]_vars

\* C7 as stated: after A.extend(B) every directive name A had still maps to
\* A's own directive, and a name only B had maps to B's directive.
C7_OwnDirectivesWin ==
    last.op = "api_extend" =>
        /\ \A n \in OdKeys(pre.directives[last.api]) :
               /\ OdHas(directives[last.api], n)
               /\ OdGet(directives[last.api], n) = OdGet(pre.directives[last.api], n)
        /\ \A n \in OdKeys(pre.directives[last.other]) \ OdKeys(pre.directives[last.api]) :
               /\ OdHas(directives[last.api], n)
               /\ OdGet(directives[last.api], n) = OdGet(pre.directives[last.other], n)

\* C7 as amended: after A.extend(B) every directive name B had maps, in A, to
\* B's directive (on a name both had, B's replaces A's own); a name only A had
\* still maps to A's own directive, and A has no other name.
C7_ExtendedDirectivesWin ==
    last.op = "api_extend" =>
        /\ OdKeys(directives[last.api]) =
               OdKeys(pre.directives[last.api]) \cup OdKeys(pre.directives[last.other])
        /\ \A n \in OdKeys(pre.directives[last.other]) :
               OdGet(directives[last.api], n) = OdGet(pre.directives[last.other], n)
        /\ \A n \in OdKeys(pre.directives[last.api]) \ OdKeys(pre.directives[last.other]) :
               OdGet(directives[last.api], n) = OdGet(pre.directives[last.api], n)
        /\ directives[last.other] = pre.directives[last.other]

\* An extend of two APIs that had different directives under one name, and
\* the extending one a name of its own.
C7_Witness ==
    /\ last.op = "api_extend"
    /\ \E n \in OdKeys(pre.directives[last.api]) \cap OdKeys(pre.directives[last.other]) :
           /\ OdGet(pre.directives[last.api], n) # OdGet(pre.directives[last.other], n)
           /\ OdGet(directives[last.api], n) = OdGet(pre.directives[last.other], n)
    /\ OdKeys(pre.directives[last.api]) \ OdKeys(pre.directives[last.other]) # {}

\* -------------------------------------------------------- directive lookup
\* hug.defaults.directives: the process-wide mapping name -> directive.
DefaultDirectives ==
    <<[k |-> "user", v |-> [name |-> "user", module |-> "hug"]],
      [k |-> "timer", v |-> [name |-> "timer", module |-> "hug"]]>>

\* The dict comprehension {'hug_' + name: directive for name, directive in items}.
RECURSIVE PrefixedDict(_, _)
PrefixedDict(acc, items) ==
    IF items = <<>> THEN acc
    ELSE PrefixedDict(OdPut(acc, "hug_" \o Head(items).k, Head(items).v), Tail(items))

\* The mutant of all_directives that chains the registry's own directives
\* before the process-wide ones.
all_directives_own_first(own) == PrefixedDict(<<>>, own \o DefaultDirectives)

\* API.directives(): chain(hug.defaults.directives.items(), _directives.items()).
all_directives(own) == PrefixedDict(<<>>, DefaultDirectives \o own)

\* API.directive(name, default).
directive(own, name, default) == OdGetOr(own, name, OdGetOr(DefaultDirectives, name, default))

Directives(api) ==
    /\ exitStatus = <<>>
    /\ result' = [directives |-> all_directives(directives[api])]
    /\ last' = [op |-> "directives", api |-> api]
    /\ pre' = NewRegistries
    /\ UNCHANGED <<httpVars, directives, hasHttp, cliVars, objects, done>>

Directive(api, name, default) ==
    /\ exitStatus = <<>>
    /\ result' = [directive |-> directive(directives[api], name, default)]
    /\ last' = [op |-> "directive", api |-> api, name |-> name, default |-> default]
    /\ pre' = NewRegistries
    /\ UNCHANGED <<httpVars, directives, hasHttp, cliVars, objects, done>>

LookupNames == DirectiveNames \cup OdKeys(DefaultDirectives) \cup {"other"}
PassedDefault == [name |-> "default", module |-> "caller"]

NextDirectiveLookup ==
    \/ \E api \in Apis, n \in DirectiveNames : AddDirective(api, DirectiveOf(api, n))
    \/ \E api \in Apis : Directives(api)
    \/ \E api \in Apis, n \in LookupNames : Directive(api, n, PassedDefault)

SpecDirectiveLookup == Init /\ [][NextDirectiveLookup]_vars

\* C17: directives() returns one entry per name of the union of the
\* process-wide directives and the registry's own (under 'hug_' + name), the
\* registry's own directive for a name in both; directive(name, default)
\* returns the registry's own directive, else the process-wide one, else the
\* passed default.
C17_DirectiveLookup ==
    /\ last.op = "directives" =>
           LET own == directives[last.api]
               names == OdKeys(own) \cup OdKeys(DefaultDirectives)
           IN  /\ OdKeys(result.directives) = {"hug_" \o n : n \in names}
               /\ Len(result.directives) = Cardinality(names)
               /\ \A n \in names :
                      OdGet(result.directives, "hug_" \o n) =
                          IF OdHas(own, n) THEN OdGet(own, n) ELSE OdGet(DefaultDirectives, n)
    /\ last.op = "directive" =>
           LET own == directives[last.api]
           IN  result.directive =
                   IF OdHas(own, last.name) THEN OdGet(own, last.name)
                   ELSE IF OdHas(DefaultDirectives, last.name)
                        THEN OdGet(DefaultDirectives, last.name)
                        ELSE last.default

\* A directives() call on an API that has a directive of its own under a
\* process-wide name and one under a name of its own.
C17_Witness ==
    /\ last.op = "directives"
    /\ \E n \in OdKeys(directives[last.api]) \cap OdKeys(DefaultDirectives) :
           /\ OdGet(directives[last.api], n) # OdGet(DefaultDirectives, n)
           /\ OdGet(result.directives, "hug_" \o n) = OdGet(directives[last.api], n)
    /\ OdKeys(directives[last.api]) \ OdKeys(DefaultDirectives) # {}
    /\ Len(result.directives) = 3

\* ------------------------------------------------ CLIInterfaceAPI.__call__
MaxArgs == 2

CommandNames == {"run", "stop"}
CommandHandlers == {"c1", "c2"}
ArgWords == CommandNames \cup {"x"}

\* The argument vectors a process can start with: the program name and up to
\* MaxArgs arguments.
ArgVectors ==
    UNION {{<<"prog">> \o a : a \in [1..n -> ArgWords]} : n \in 0..MaxArgs}

\* commands[name] = handler, as the CLI interface of a function registers it.
RegisterCommand(name, handler) ==
    /\ done.register < MaxRegisters
    /\ exitStatus = <<>>
    /\ commands' = OdPut(commands, name, handler)
    /\ last' = [op |-> "register_command", name |-> name]
    /\ pre' = NewRegistries
    /\ result' = "none"
    /\ done' = [done EXCEPT !.register = @ + 1]
    /\ UNCHANGED <<httpVars, directives, hasHttp, objects, argv, exitStatus, invoked>>

\* The mutant of ArgvPop that removes the program name, sys.argv.pop(0).
ArgvPopProgram(args) == Tail(args)

\* sys.argv after sys.argv.pop(1).
ArgvPop(args) == <<args[1]>> \o SubSeq(args, 3, Len(args))

\* CLIInterfaceAPI.__call__: the handler is called without arguments; what it
\* can read is sys.argv as the call leaves it.
CliCall ==
    /\ exitStatus = <<>>
    /\ IF ~ (Len(argv) > 1) \/ ~ OdHas(commands, argv[2])
       THEN /\ exitStatus' = <<1>>
            /\ UNCHANGED <<argv, invoked>>
       ELSE /\ argv' = ArgvPop(argv)
            /\ invoked' = Append(invoked, [handler |-> OdGet(commands, argv[2]),
                                           args |-> <<>>, argv |-> ArgvPop(argv)])
            /\ UNCHANGED exitStatus
    /\ last' = [op |-> "cli_call"]
    /\ pre' = Snapshot
    /\ result' = "none"
    /\ UNCHANGED <<httpVars, directives, hasHttp, objects, commands, done>>

InitCLI == InitRegistries /\ argv \in ArgVectors

NextCLI ==
    \/ \E n \in CommandNames, h \in CommandHandlers : RegisterCommand(n, h)
    \/ CliCall

SpecCLI == InitCLI /\ [][NextCLI]_vars

\* The call selects a command: argv[1] is there and is a registered name.
Dispatches(args, table) == Len(args) > 1 /\ OdHas(table, args[2])

\* What CLI dispatch does apart from the handler's arguments: on a registered
\* argv[1], that argument is removed and the command's handler is invoked
\* exactly once; otherwise the process exits with status 1, no handler is
\* invoked and argv is unchanged.
DispatchOutcome ==
    IF Dispatches(pre.argv, commands)
    THEN /\ argv = <<pre.argv[1]>> \o SubSeq(pre.argv, 3, Len(pre.argv))
         /\ Len(invoked) = Len(pre.invoked) + 1
         /\ SubSeq(invoked, 1, Len(pre.invoked)) = pre.invoked
         /\ invoked[Len(invoked)].handler = OdGet(commands, pre.argv[2])
         /\ exitStatus = <<>>
    ELSE /\ exitStatus = <<1>>
         /\ invoked = pre.invoked
         /\ argv = pre.argv

\* C5 as stated: on a registered argv[1] the handler is invoked once and is
\* passed the remaining arguments; otherwise exit status 1, no handler invoked,
\* argv unchanged.
C5_HandlerGetsRemainingArguments ==
    last.op = "cli_call" =>
        /\ DispatchOutcome
        /\ Dispatches(pre.argv, commands) =>
               invoked[Len(invoked)].args = SubSeq(pre.argv, 3, Len(pre.argv))

\* C5 as amended: on a registered argv[1] the handler is invoked once, with no
\* call arguments, and the remaining arguments are what follows the program
\* name in the argument vector it finds; otherwise exit status 1, no handler
\* invoked, argv unchanged.
C5_HandlerFindsRemainingArguments ==
    last.op = "cli_call" =>
        /\ DispatchOutcome
        /\ Dispatches(pre.argv, commands) =>
               /\ invoked[Len(invoked)].args = <<>>
               /\ invoked[Len(invoked)].argv[1] = pre.argv[1]
               /\ Tail(invoked[Len(invoked)].argv) = SubSeq(pre.argv, 3, Len(pre.argv))

\* A dispatched call that left an argument for the handler.
C5_Witness ==
    /\ last.op = "cli_call"
    /\ Dispatches(pre.argv, commands)
    /\ Len(pre.argv) = 3
    /\ Len(invoked) = 1
    /\ Tail(argv) = <<pre.argv[3]>>

\* ---------------------------------------- ModuleSingleton and API.http / cli
MaxCalls == 4

\* The type(module) == str branch: a name sys.modules lacks gets a new module.
WithModule(objs, arg) ==
    IF arg.kind = "name" /\ objs.sysModules[arg.name] = 0
    THEN [objs EXCEPT !.modules = Append(@, arg.name),
                      !.sysModules[arg.name] = Len(objs.modules) + 1,
                      !.hug = Append(@, 0)]
    ELSE objs

\* The module object the call is about, once the name is resolved.
ModuleOf(objs, arg) == IF arg.kind = "name" THEN objs.sysModules[arg.name] ELSE arg.id

\* super().__call__(module) stored as module.__hug__: a new API object.
NewApi(objs, m) ==
    [objs EXCEPT !.hug[m] = Len(objs.module) + 1,
                 !.module = Append(@, m),
                 !.http = Append(@, 0),
                 !.cli = Append(@, 0)]

\* The mutant of ModuleSingletonCall that makes a new API object on every call.
ModuleSingletonCallAlwaysNew(objs, arg) ==
    IF arg.kind = "api" THEN [objects |-> objs, ret |-> arg.id]
    ELSE LET resolved == WithModule(objs, arg)
             m == ModuleOf(resolved, arg)
             made == NewApi(resolved, m)
         IN  [objects |-> made, ret |-> made.hug[m]]

\* ModuleSingleton.__call__(cls, module): API(module).
ModuleSingletonCall(objs, arg) ==
    IF arg.kind = "api" THEN [objects |-> objs, ret |-> arg.id]
    ELSE LET resolved == WithModule(objs, arg)
             m == ModuleOf(resolved, arg)
             made == IF resolved.hug[m] = 0 THEN NewApi(resolved, m) ELSE resolved
         IN  [objects |-> made, ret |-> made.hug[m]]

\* The http property of API object a.
http(objs, a) ==
    LET made == IF objs.http[a] = 0
                THEN [objs EXCEPT !.http[a] = objs.registries + 1, !.registries = @ + 1]
                ELSE objs
    IN  [objects |-> made, ret |-> made.http[a]]

\* The cli property of API object a.
cli(objs, a) ==
    LET made == IF objs.cli[a] = 0
                THEN [objs EXCEPT !.cli[a] = objs.registries + 1, !.registries = @ + 1]
                ELSE objs
    IN  [objects |-> made, ret |-> made.cli[a]]

\* A call and what it returned, added to the log.
Called(op, arg, outcome) ==
    /\ Len(objects.calls) < MaxCalls
    /\ exitStatus = <<>>
    /\ objects' = [outcome.objects EXCEPT !.calls = Append(@, [arg |-> arg, ret |-> outcome.ret])]
    /\ last' = [op |-> op]
    /\ pre' = NewRegistries
    /\ result' = "none"
    /\ UNCHANGED <<httpVars, directives, hasHttp, cliVars, done>>

ApiCall(arg) == Called("API", arg, ModuleSingletonCall(objects, arg))
HttpProperty(a) == Called("http", [kind |-> "http", name |-> "", id |-> a], http(objects, a))
CliProperty(a) == Called("cli", [kind |-> "cli", name |-> "", id |-> a], cli(objects, a))

\* What API(...) can be called with: a module name, a module object, an API
\* object.
ApiArguments ==
    {[kind |-> "name", name |-> n, id |-> 0] : n \in ModuleNames}
        \cup {[kind |-> "module", name |-> "", id |-> m] : m \in DOMAIN objects.modules}
        \cup {[kind |-> "api", name |-> "", id |-> a] : a \in DOMAIN objects.module}

NextSingleton ==
    \/ \E arg \in ApiArguments : ApiCall(arg)
    \/ \E a \in DOMAIN objects.module : HttpProperty(a)
    \/ \E a \in DOMAIN objects.module : CliProperty(a)

SpecSingleton == Init /\ [][NextSingleton]_vars

\* C18: over any sequence of calls, API(m) returns the same API object for the
\* same module object or the same module name (and for a name and the module
\* sys.modules holds under it), API(a) of an API object a returns a, and the
\* reads of the http property, and of the cli property, of one API object
\* return the same registry object.
C18_GetOrCreateIdempotent ==
    LET calls == objects.calls
    IN  /\ \A i, j \in DOMAIN calls :
               \/ calls[i].arg = calls[j].arg
               \/ /\ calls[i].arg.kind = "name"
                  /\ calls[j].arg.kind = "module"
                  /\ objects.sysModules[calls[i].arg.name] = calls[j].arg.id
               => calls[i].ret = calls[j].ret
        /\ \A i \in DOMAIN calls : calls[i].arg.kind = "api" => calls[i].ret = calls[i].arg.id

\* API of a name sys.modules lacked, then API of the module made for it, with
\* the same API object returned, whose http property was read twice.
C18_Witness ==
    LET calls == objects.calls
    IN  /\ Len(calls) = 4
        /\ calls[1].arg = [kind |-> "name", name |-> "m2", id |-> 0]
        /\ calls[2].arg = [kind |-> "module", name |-> "", id |-> 2]
        /\ calls[2].ret = calls[1].ret
        /\ calls[3].arg.kind = "http" /\ calls[3].arg.id = calls[1].ret
        /\ calls[4] = calls[3]

====
